---- MODULE Spec2Model ----
(***************************************************************************)
(* Model of ZenithionMerchantBot: the chat handlers of handlers.py, the    *)
(* routing set up by register_handlers, the authorization filter of        *)
(* filters.py, the API client of zenithionpay_client.py and the webhook    *)
(* of webhook_handlers.py.                                                 *)
(*                                                                         *)
(* Texts are sequences of one-character strings, so that strip() and the   *)
(* address regular expression are computed character by character.         *)
(* Message texts sent by the bot are named by a tag, not spelled out.      *)
(*                                                                         *)
(* Scope: sends, edits and deletes issued by the chat handlers are taken   *)
(* to succeed and callback.message to be present; the send of the deposit  *)
(* fan-out (bot.send_message) may fail.                                    *)
(***************************************************************************)
EXTENDS Integers, Sequences, FiniteSets, Bags, TLC

VARIABLES fsm, last, tasks

vars == <<fsm, last, tasks>>

(***************************************************************************)
(* callbacks.py                                                            *)
(***************************************************************************)

\* class Cb: the attributes the class defines, with their values.
Cb ==
  [ BALANCE        |-> "balance",
    PAYMENTS_LAST  |-> "payments_last",
    PAYMENTS_TODAY |-> "payments_today",
    WITHDRAW       |-> "withdraw",
    CHECK_PAYMENT  |-> "check_payment",
    DELETE_MESSAGE |-> "delete_message",
    CANCEL         |-> "cancel" ]

\* Reading Cb.<attr>: the value, or AttributeError when the class has no
\* such attribute.
CbAttr(attr) ==
  IF attr \in DOMAIN Cb
    THEN [exc |-> "none", value |-> Cb[attr]]
    ELSE [exc |-> "AttributeError", value |-> ""]

\* is_cb(data, name): exact equality (data or "") == name.
is_cb(data, name) == data = name

(***************************************************************************)
(* config.py                                                               *)
(***************************************************************************)

\* Config.api_tokens: credential -> list of enrolled identities.
Tokens == {"tokA", "tokB", "tokC"}

api_tokens ==
  [ tokA |-> <<"u1", "u2">>,
    tokB |-> <<"u3">>,
    tokC |-> <<>> ]

\* A credential the table does not hold.
UnknownToken == "tokX"

\* The identities that chat with the bot: two enrolled under one credential
\* and one that is not enrolled.
Users == {"u1", "u2", "u9"}

NoKey == "none"

SeqRange(s) == {s[i] : i \in DOMAIN s}

\* Config.get_api_token(user_id): the first credential whose list holds the
\* identity, none otherwise.
get_api_token(user_id) ==
  IF \E t \in Tokens : user_id \in SeqRange(api_tokens[t])
    THEN CHOOSE t \in Tokens : user_id \in SeqRange(api_tokens[t])
    ELSE NoKey

\* Config.webhooks_api_key
webhooks_api_key == "s3cret"

(***************************************************************************)
(* states.py                                                               *)
(***************************************************************************)

Idle == "Idle"
AwaitingWithdrawAddress == "AwaitingWithdrawAddress"
AwaitingPaymentQuery == "AwaitingPaymentQuery"

States == {Idle, AwaitingWithdrawAddress, AwaitingPaymentQuery}

(***************************************************************************)
(* Texts                                                                   *)
(***************************************************************************)

Rep(c, n) == [i \in 1..n |-> c]

\* The characters c with c.isspace(), which str.strip() and str.split()
\* remove: the ASCII ones, then those beyond ASCII.  A character that has
\* no escape in a TLA+ string is named by its Python escape.
Whitespace ==
  { "\t", "\n", "\\x0b", "\f", "\r", "\\x1c", "\\x1d", "\\x1e", "\\x1f", " ",
    "\\x85", "\\xa0", "\\u1680", "\\u2000", "\\u2001", "\\u2002", "\\u2003",
    "\\u2004", "\\u2005", "\\u2006", "\\u2007", "\\u2008", "\\u2009", "\\u200a",
    "\\u2028", "\\u2029", "\\u202f", "\\u205f", "\\u3000" }

\* str.strip(): drop leading and trailing whitespace.
RECURSIVE LStrip(_)
LStrip(s) ==
  IF s # <<>> /\ Head(s) \in Whitespace THEN LStrip(Tail(s)) ELSE s

RECURSIVE RStrip(_)
RStrip(s) ==
  IF s # <<>> /\ s[Len(s)] \in Whitespace
    THEN RStrip(SubSeq(s, 1, Len(s) - 1))
    ELSE s

Strip(s) == RStrip(LStrip(s))

\* The character class [1-9A-HJ-NP-Za-km-z] of _TRON_ADDRESS_RE.
Base58 ==
  { "1", "2", "3", "4", "5", "6", "7", "8", "9",
    "A", "B", "C", "D", "E", "F", "G", "H",
    "J", "K", "L", "M", "N",
    "P", "Q", "R", "S", "T", "U", "V", "W", "X", "Y", "Z",
    "a", "b", "c", "d", "e", "f", "g", "h", "i", "j", "k",
    "m", "n", "o", "p", "q", "r", "s", "t", "u", "v", "w", "x", "y", "z" }

\* The repetition count {33} of _TRON_ADDRESS_RE.
AddrTail == 33

\* Mutant of TronAddressMatch: the pattern is matched at the start of the
\* string only (re.match without the closing anchor).
TronAddressMatch_unanchored(s) ==
  /\ Len(s) >= AddrTail + 1
  /\ s[1] = "T"
  /\ \A i \in 2..(AddrTail + 1) : s[i] \in Base58

\* _TRON_ADDRESS_RE.fullmatch(s): "T" followed by exactly 33 characters of
\* the class, and nothing else.
TronAddressMatch(s) ==
  /\ Len(s) = AddrTail + 1
  /\ s[1] = "T"
  /\ \A i \in 2..(AddrTail + 1) : s[i] \in Base58

ValidAddr == <<"T">> \o Rep("K", AddrTail)
ValidAddr2 == <<"T">> \o Rep("z", AddrTail - 1) \o <<"1">>
PaddedAddr == <<" ", "\r">> \o ValidAddr \o <<"\f", "\n">>
ShortAddr == <<"T">> \o Rep("K", AddrTail - 1)
LongAddr == <<"T">> \o Rep("K", AddrTail + 1)
ZeroAddr == <<"T">> \o Rep("K", AddrTail - 1) \o <<"0">>
EllAddr == <<"T", "l">> \o Rep("K", AddrTail - 1)
InnerSpaceAddr == <<"T", " ">> \o Rep("K", AddrTail - 1)
PrefixAddr == <<"A">> \o Rep("K", AddrTail)
CmdStart == <<"/", "s", "t", "a", "r", "t">>
CmdStartArg == CmdStart \o <<" ", "x">>
CmdStartLead == <<" ", "\n">> \o CmdStart \o <<"\r", "x">>
CmdStartMention == CmdStart \o <<"@", "z", "\\u212a", "b", "O", "T">>
CmdStartOther == CmdStart \o <<"@", "x">>
CmdStartLong == CmdStart \o <<"x">>
PaymentId == <<"p", "1">>
Blank == <<" ", "\\x0b", "\\xa0">>
Empty == <<>>

\* The texts a chat message may carry.  The address check is exercised on
\* many more texts on its own (AddrInputs), the plain ValidAddr among them.
Texts ==
  { PaddedAddr, ShortAddr, ZeroAddr, CmdStart, CmdStartArg,
    CmdStartLead, CmdStartMention, CmdStartOther, CmdStartLong, PaymentId,
    Blank, Empty }

\* A message: its text and its caption, each <<>> when the message has
\* none (None and "" are both false where the code reads them).
Message(text, caption) == [text |-> text, caption |-> caption]

NoMessage == Message(<<>>, <<>>)

\* The messages a chat may deliver: a text message, or a media message with
\* a caption and no text.
Messages ==
  {Message(t, <<>>) : t \in Texts}
    \cup {Message(<<>>, c) : c \in {CmdStart, ValidAddr}}

(***************************************************************************)
(* zenithionpay_client.py                                                  *)
(***************************************************************************)

\* The body of an HTTP response: JSON text of a dict, JSON text of a list,
\* or text that is not JSON.
\* A dict carries the keys the handlers read: success, status, payments.
Body(json, type, success, status, payments) ==
  [json |-> json, type |-> type, success |-> success, status |-> status,
   payments |-> payments]

NoBody == Body(FALSE, "text", "absent", "absent", "absent")

Bodies ==
  { Body(TRUE, "dict", "true", "absent", "absent"),
    Body(TRUE, "dict", "absent", "under_minimum_withdrawal_amount", "absent"),
    Body(TRUE, "dict", "false", "other", "absent"),
    Body(TRUE, "dict", "absent", "true", "some"),
    Body(TRUE, "dict", "absent", "absent", "empty"),
    Body(TRUE, "list", "absent", "absent", "absent"),
    NoBody }

\* The statuses of a redirection that urlopen's opener handles.
RedirectStatuses == {301, 302, 303, 307, 308}

HttpStatuses ==
  {100, 199, 200, 201, 204, 299, 300, 304, 400, 404, 500, 503}
    \cup RedirectStatuses

\* One reply of the remote: a response with its status, body and Location
\* header, or a failure of the transport (connection refused or closed,
\* timeout, TLS).
Reply(kind, status, body, location) ==
  [kind |-> kind, status |-> status, body |-> body, location |-> location]

TransportFailure == Reply("transport", 0, NoBody, "absent")

\* The Location header is read on a redirection only: it is absent, a URL
\* the opener may go to (http, https, ftp or relative), or a URL of another
\* scheme.
Replies ==
  { Reply("response", s, b, "absent") :
      s \in HttpStatuses \ RedirectStatuses, b \in Bodies }
    \cup { Reply("response", s, b, l) :
             s \in RedirectStatuses, b \in Bodies,
             l \in {"absent", "url", "other"} }
    \cup { TransportFailure }

\* The replies after which urlopen may read a further one: the interim
\* response 100, and a redirection to a URL it may go to.  What they carry
\* as body is read and dropped.
Leads ==
  { Reply("response", 100, NoBody, "absent") }
    \cup { Reply("response", s, NoBody, "url") : s \in RedirectStatuses }

\* The replies urlopen reads during one call are at most MaxHops.
MaxHops == 2

\* The sequences of at most n replies, each but the last a lead.
RECURSIVE Chains(_)
Chains(n) ==
  IF n <= 1
    THEN { <<r>> : r \in Replies }
    ELSE Chains(n - 1) \cup { <<l>> \o c : l \in Leads, c \in Chains(n - 1) }

\* What the remote does with one call of the client: the replies it gives,
\* in the order urlopen reads them.  When urlopen reads on after the last
\* of them, the remote has closed the connection without a response.
RemoteOutcomes == Chains(MaxHops)

\* No call was made.
NoRemote == <<>>

\* The outcomes the chat handlers are run on: every body with the status
\* 200, one body with each other class of status, the transport failure,
\* and the replies urlopen reads on from.
HandlerRemotes ==
  LET accepted == Body(TRUE, "dict", "true", "absent", "absent")
  IN { <<Reply("response", 200, b, "absent")>> : b \in Bodies }
       \cup { <<Reply("response", s, accepted, "absent")>> :
                s \in {199, 204, 299, 300, 400, 404, 500} }
       \cup { <<TransportFailure>>,
              <<Reply("response", 302, NoBody, "url"),
                Reply("response", 200, accepted, "absent")>>,
              <<Reply("response", 307, accepted, "url")>>,
              <<Reply("response", 100, NoBody, "absent"),
                Reply("response", 503, accepted, "absent")>> }

Payload(type, success, status, payments) ==
  [type |-> type, success |-> success, status |-> status,
   payments |-> payments]

NoPayload == Payload("none", "absent", "absent", "absent")

\* json.loads(body), with the raw text as the value when decoding fails.
DecodeBody(body) ==
  IF body.json
    THEN Payload(body.type, body.success, body.status, body.payments)
    ELSE Payload("text", "absent", "absent", "absent")

\* resp.read() / e.read(): the body as urllib hands it over.  A response
\* with a 1xx, 204 or 304 status is read without a body, whatever the remote
\* sent after its headers: the text read is empty.
ResponseBody(answer) ==
  IF (100 <= answer.status /\ answer.status <= 199)
       \/ answer.status \in {204, 304}
    THEN NoBody
    ELSE answer.body

\* HTTPRedirectHandler: a redirection with a Location the opener may go to
\* is followed for 301, 302 and 303, and for 307 and 308 when the request
\* is a GET.
Follows(method, answer) ==
  /\ answer.status \in RedirectStatuses
  /\ answer.location = "url"
  /\ answer.status \in {301, 302, 303} \/ method = "GET"

\* urllib.request.urlopen(req): the response it hands over or the error it
\* raises, reading the replies of remote from the i-th on; requests counts
\* the HTTP requests issued so far, this one included.
\*   - a failure of the transport, or no reply at all, raises an error that
\*     is not an HTTPError;
\*   - the interim response 100 is skipped and the next response of the same
\*     request is read;
\*   - a redirection that is followed issues a further request, a GET
\*     without body to the Location, and the reply to that one is treated
\*     the same way;
\*   - every other response is handed over, as the response (2xx) or as an
\*     HTTPError carrying it.
\* The opener gives up after 10 redirections, or 4 to the same URL; MaxHops
\* keeps a call below both.
RECURSIVE urlopen(_, _, _, _)
urlopen(method, remote, i, requests) ==
  IF i > Len(remote) \/ remote[i].kind = "transport"
    THEN [exc |-> "TransportError", status |-> 0, body |-> NoBody,
          requests |-> requests]
  ELSE IF remote[i].status = 100
    THEN urlopen(method, remote, i + 1, requests)
  ELSE IF Follows(method, remote[i])
    THEN urlopen("GET", remote, i + 1, requests + 1)
  ELSE [exc |-> "none", status |-> remote[i].status,
        body |-> ResponseBody(remote[i]), requests |-> requests]

\* The rest of _http_request_json: the status and the decoded body of the
\* response (an HTTPError is caught and its code is the status); any other
\* error of urlopen propagates.
StatusAndPayload(resp) ==
  IF resp.exc # "none"
    THEN [exc |-> resp.exc, status |-> 0, payload |-> NoPayload,
          requests |-> resp.requests]
    ELSE [exc |-> "none", status |-> resp.status,
          payload |-> DecodeBody(resp.body), requests |-> resp.requests]

\* _http_request_json(method, url, headers, timeout, json_body)
http_request_json(method, remote) ==
  StatusAndPayload(urlopen(method, remote, 1, 1))

\* The result of a client call as its caller sees it.
\*   ok         the payload is returned
\*   api_error  ZenithionPayApiError(status, payload) is raised
\*   exception  another exception is raised (exc names it)
\* requests is the number of HTTP requests issued for the call.
ApiResult(kind, status, payload, exc, requests) ==
  [kind |-> kind, status |-> status, payload |-> payload, exc |-> exc,
   requests |-> requests]

\* The part of get_json and post_json after the request: a status of 200 to
\* 299 returns the payload, any other raises ZenithionPayApiError, and an
\* exception of the request is raised again.
Classify(res) ==
  IF res.exc # "none"
    THEN ApiResult("exception", 0, NoPayload, res.exc, res.requests)
    ELSE IF 200 <= res.status /\ res.status <= 299
      THEN ApiResult("ok", res.status, res.payload, "none", res.requests)
      ELSE ApiResult("api_error", res.status, res.payload, "none",
                     res.requests)

\* post_json(endpoint, headers, json_body=...)
post_json(remote) == Classify(http_request_json("POST", remote))

\* The keyword parameters of get_json.
GetJsonParams == {"endpoint", "headers", "timeout", "params"}

\* get_json(endpoint, headers, **kw): a call with a keyword the signature
\* does not have raises TypeError before any request is made.
get_json(kw, remote) ==
  IF kw \subseteq GetJsonParams
    THEN Classify(http_request_json("GET", remote))
    ELSE ApiResult("exception", 0, NoPayload, "TypeError", 0)

(***************************************************************************)
(* keyboards/inline.py                                                     *)
(***************************************************************************)

\* The Cb attributes each keyboard factory reads.
KbAttrs ==
  [ user_menu      |-> {"BALANCE", "PAYMENTS_LAST", "CHECK_PAYMENT", "WITHDRAW"},
    delete_message |-> {"DELETE_MESSAGE"},
    cansel         |-> {"BACK_TO_USER_MENU"} ]

\* get_inline_kb(name): the keyboard, or the AttributeError of the factory.
get_inline_kb(name) ==
  IF \A a \in KbAttrs[name] : CbAttr(a).exc = "none"
    THEN [exc |-> "none", kb |-> name]
    ELSE [exc |-> "AttributeError", kb |-> "none"]

(***************************************************************************)
(* handlers.py: the run of one handler                                     *)
(*                                                                         *)
(* A run is what a handler has done so far: the conversation state it      *)
(* leaves, the messages it sent, the HTTP requests it issued, whether it   *)
(* deleted the message it was called on, and the exception that ended it   *)
(* ("none" while it is running normally).  Every step is skipped once an   *)
(* exception is set, as the statements after a raise are.                  *)
(***************************************************************************)

Run(state, msgs, calls, deleted, exc) ==
  [state |-> state, msgs |-> msgs, calls |-> calls, deleted |-> deleted,
   exc |-> exc]

Begin(st) == Run(st, <<>>, <<>>, FALSE, "none")

Msg(text, kb, via) == [text |-> text, kb |-> kb, via |-> via]

Call(method, endpoint, arg) ==
  [method |-> method, endpoint |-> endpoint, arg |-> arg]

Raise(r, exc) == IF r.exc # "none" THEN r ELSE [r EXCEPT !.exc = exc]

\* message.answer(text, reply_markup=get_inline_kb(kb)): the keyboard is
\* built first, so its exception leaves the message unsent.
Answer(r, text, kb) ==
  IF r.exc # "none" THEN r
  ELSE IF get_inline_kb(kb).exc # "none" THEN Raise(r, get_inline_kb(kb).exc)
  ELSE [r EXCEPT !.msgs = Append(@, Msg(text, kb, "message"))]

\* message.answer(text) without a keyboard.
AnswerPlain(r, text) ==
  IF r.exc # "none" THEN r
  ELSE [r EXCEPT !.msgs = Append(@, Msg(text, "none", "message"))]

\* callback.answer(text, reply_markup=get_inline_kb(kb))
CallbackAnswer(r, text, kb) ==
  IF r.exc # "none" THEN r
  ELSE IF get_inline_kb(kb).exc # "none" THEN Raise(r, get_inline_kb(kb).exc)
  ELSE [r EXCEPT !.msgs = Append(@, Msg(text, kb, "callback_answer"))]

\* callback.message.edit_text(text, reply_markup=get_inline_kb(kb))
EditText(r, text, kb) ==
  IF r.exc # "none" THEN r
  ELSE IF get_inline_kb(kb).exc # "none" THEN Raise(r, get_inline_kb(kb).exc)
  ELSE [r EXCEPT !.msgs = Append(@, Msg(text, kb, "edit"))]

\* state.set_state(s)
SetState(r, s) == IF r.exc # "none" THEN r ELSE [r EXCEPT !.state = s]

\* state.clear()
Clear(r) == SetState(r, Idle)

\* message.delete() / callback.message.delete()
Delete(r) == IF r.exc # "none" THEN r ELSE [r EXCEPT !.deleted = TRUE]

\* The GET requests of n redirections followed.
RECURSIVE Redirected(_)
Redirected(n) ==
  IF n = 0 THEN <<>>
  ELSE Append(Redirected(n - 1), Call("GET", "Location", <<>>))

\* The HTTP requests of a client call, recorded when any was issued: the
\* request of the call and, after it, the GET of each redirection followed.
Requested(r, o, method, endpoint, arg) ==
  IF r.exc # "none" \/ o.requests = 0 THEN r
  ELSE [r EXCEPT !.calls = @ \o <<Call(method, endpoint, arg)>>
                             \o Redirected(o.requests - 1)]

(***************************************************************************)
(* handlers.py: the handlers                                               *)
(*                                                                         *)
(* Each handler maps the conversation state it is entered in, the text of  *)
(* the message (input handlers) and what the remote would do with a        *)
(* request, to its run.                                                    *)
(***************************************************************************)

_service_unavailable == "service_unavailable"

InfoKw == {"endpoint", "headers", "timeout", "cache_ttl", "refresh"}
HistoryKw == {"endpoint", "headers", "params", "cache_ttl"}
PaymentKw == {"endpoint", "headers", "cache_ttl"}

\* get_merchant_info_text: the client result; formatting a payload that is
\* no dict raises (response_data.get).
get_merchant_info_text(remote) ==
  LET o == get_json(InfoKw, remote)
  IN IF o.kind = "ok" /\ o.payload.type # "dict"
       THEN ApiResult("exception", 0, NoPayload, "AttributeError", o.requests)
       ELSE o

\* Mutant of start_handler: /start clears the conversation state first.
start_handler_resetting(st, remote) ==
  LET o  == get_merchant_info_text(remote)
      r0 == Requested(Clear(Begin(st)), o, "GET", "merchant/info", <<>>)
  IN CASE o.kind = "api_error" ->
            IF o.status >= 500
              THEN Answer(r0, _service_unavailable, "user_menu")
              ELSE Answer(r0, "request_error", "user_menu")
       [] o.kind = "exception" -> Answer(r0, _service_unavailable, "user_menu")
       [] OTHER -> Answer(r0, "summary", "user_menu")

start_handler(st, remote) ==
  LET o  == get_merchant_info_text(remote)
      r0 == Requested(Begin(st), o, "GET", "merchant/info", <<>>)
  IN CASE o.kind = "api_error" ->
            IF o.status >= 500
              THEN Answer(r0, _service_unavailable, "user_menu")
              ELSE Answer(r0, "request_error", "user_menu")
       [] o.kind = "exception" -> Answer(r0, _service_unavailable, "user_menu")
       [] OTHER -> Answer(r0, "summary", "user_menu")

\* Mutant of delete_message_callback: it also clears the state.
delete_message_callback_clearing(st) == Delete(Clear(Begin(st)))

\* The state is not among the handler's parameters.
delete_message_callback(st) == Delete(Begin(st))

cancel_callback(st, remote) ==
  LET o  == get_merchant_info_text(remote)
      r0 == Requested(Clear(Begin(st)), o, "GET", "merchant/info", <<>>)
  IN CASE o.kind = "api_error" ->
            IF o.status >= 500
              THEN Answer(r0, _service_unavailable, "user_menu")
              ELSE Answer(r0, "request_error", "user_menu")
       [] o.kind = "exception" -> Answer(r0, _service_unavailable, "user_menu")
       [] OTHER -> Delete(Answer(r0, "summary", "user_menu"))

info_callback(st, remote) ==
  LET o  == get_merchant_info_text(remote)
      r0 == Requested(Begin(st), o, "GET", "merchant/info", <<>>)
  IN CASE o.kind = "api_error" ->
            IF o.status >= 500
              THEN CallbackAnswer(r0, _service_unavailable, "user_menu")
              ELSE CallbackAnswer(r0, "request_error", "user_menu")
       [] o.kind = "exception" ->
            CallbackAnswer(r0, _service_unavailable, "user_menu")
       [] OTHER ->
            LET r1 == EditText(r0, "summary", "user_menu")
            IN IF r1.exc # "none" THEN r1
               ELSE [r1 EXCEPT !.msgs =
                       Append(@, Msg("data_refreshed", "none", "callback_answer"))]

payments_history_callback(st, remote) ==
  LET o  == get_json(HistoryKw, remote)
      r0 == Requested(Begin(st), o, "GET", "payments/history", <<>>)
  IN CASE o.kind = "api_error" ->
            IF o.status >= 500
              THEN AnswerPlain(r0, _service_unavailable)
              ELSE AnswerPlain(r0, "request_error_detail")
       [] o.kind = "exception" -> AnswerPlain(r0, _service_unavailable)
       [] OTHER ->
            IF o.payload.type = "dict" /\ o.payload.payments = "some"
              THEN Delete(Answer(r0, "payments_list", "cansel"))
              ELSE AnswerPlain(r0, "no_payments")

check_payment_callback(st) ==
  Delete(Answer(SetState(Begin(st), AwaitingPaymentQuery),
                "payment_prompt", "cansel"))

\* Formatting the payment found is taken to succeed.
check_payment_input(st, text, remote) ==
  LET value == Strip(text)
      r0 == Delete(Begin(st))
  IN IF value = <<>>
       THEN Answer(r0, "payment_empty", "delete_message")
       ELSE
         LET o  == get_json(PaymentKw, remote)
             r1 == Requested(r0, o, "GET", "payments/", value)
         IN CASE o.kind = "api_error" ->
                   IF o.status = 404
                     THEN Answer(r1, "payment_not_found", "cansel")
                     ELSE Clear(Answer(r1, _service_unavailable, "cansel"))
              [] o.kind = "exception" ->
                   Clear(Answer(r1, _service_unavailable, "cansel"))
              [] OTHER ->
                   Clear(Answer(r1, "payment_detail", "delete_message"))

\* Mutant of withdraw_callback: a conversation that already awaits the
\* address is cleared.
withdraw_callback_toggle(st) ==
  IF st = AwaitingWithdrawAddress
    THEN Delete(Answer(Clear(Begin(st)), "withdraw_prompt", "cansel"))
    ELSE Delete(Answer(SetState(Begin(st), AwaitingWithdrawAddress),
                       "withdraw_prompt", "cansel"))

withdraw_callback(st) ==
  Delete(Answer(SetState(Begin(st), AwaitingWithdrawAddress),
                "withdraw_prompt", "cansel"))

\* The message that reports the decision payload of a withdrawal.
WithdrawOutcomeText(payload) ==
  IF payload.type = "dict"
    THEN IF payload.success = "true" THEN "withdraw_success"
         ELSE IF payload.status = "under_minimum_withdrawal_amount"
           THEN "under_minimum"
           ELSE "withdraw_fail"
    ELSE "withdraw_fail"

\* Mutant of withdraw_input: state.clear() runs before the format check.
withdraw_input_clear_first(st, text, remote) ==
  LET to_address == Strip(text)
  IN IF ~TronAddressMatch(to_address)
       THEN Answer(Clear(Begin(st)), "bad_address", "cansel")
       ELSE
         LET o  == post_json(remote)
             r1 == Requested(Clear(Begin(st)), o, "POST",
                             "merchant/balance/withdraw", to_address)
         IN CASE o.kind = "api_error" ->
                   IF o.status >= 500
                     THEN Answer(r1, _service_unavailable, "cansel")
                     ELSE Answer(r1, "request_error_detail", "cansel")
              [] o.kind = "exception" ->
                   Answer(r1, _service_unavailable, "cansel")
              [] OTHER ->
                   Delete(Answer(r1, WithdrawOutcomeText(o.payload),
                                 "delete_message"))

\* Mutant of withdraw_input: the request is posted without the format check.
withdraw_input_unchecked(st, text, remote) ==
  LET to_address == Strip(text)
      o  == post_json(remote)
      r1 == Requested(Begin(st), o, "POST", "merchant/balance/withdraw",
                      to_address)
  IN CASE o.kind = "api_error" ->
            IF o.status >= 500
              THEN Clear(Answer(r1, _service_unavailable, "cansel"))
              ELSE Clear(Answer(r1, "request_error_detail", "cansel"))
       [] o.kind = "exception" ->
            Clear(Answer(r1, _service_unavailable, "cansel"))
       [] OTHER ->
            Delete(Clear(Answer(r1, WithdrawOutcomeText(o.payload),
                                "delete_message")))

withdraw_input(st, text, remote) ==
  LET to_address == Strip(text)
  IN IF ~TronAddressMatch(to_address)
       THEN Answer(Begin(st), "bad_address", "cansel")
       ELSE
         LET o  == post_json(remote)
             r1 == Requested(Begin(st), o, "POST", "merchant/balance/withdraw",
                             to_address)
         IN CASE o.kind = "api_error" ->
                   IF o.status >= 500
                     THEN Clear(Answer(r1, _service_unavailable, "cansel"))
                     ELSE Clear(Answer(r1, "request_error_detail", "cansel"))
              [] o.kind = "exception" ->
                   Clear(Answer(r1, _service_unavailable, "cansel"))
              [] OTHER ->
                   Delete(Clear(Answer(r1, WithdrawOutcomeText(o.payload),
                                       "delete_message")))

\* The body of a handler by name.
RunHandler(h, st, text, remote) ==
  CASE h = "start_handler" -> start_handler(st, remote)
    [] h = "delete_message_callback" -> delete_message_callback(st)
    [] h = "cancel_callback" -> cancel_callback(st, remote)
    [] h = "info_callback" -> info_callback(st, remote)
    [] h = "payments_history_callback" -> payments_history_callback(st, remote)
    [] h = "check_payment_callback" -> check_payment_callback(st)
    [] h = "check_payment_input" -> check_payment_input(st, text, remote)
    [] h = "withdraw_callback" -> withdraw_callback(st)
    [] h = "withdraw_input" -> withdraw_input(st, text, remote)
    [] OTHER -> Begin(st)

(***************************************************************************)
(* filters.py and register_handlers: routing of a chat event               *)
(***************************************************************************)

\* The username of the bot account, as bot.me() returns it: a username is
\* written in letters of ASCII, digits and underscores.
BotUsername == <<"Z", "k", "b", "o", "t">>

UpperLetters ==
  << "A", "B", "C", "D", "E", "F", "G", "H", "I", "J", "K", "L", "M",
     "N", "O", "P", "Q", "R", "S", "T", "U", "V", "W", "X", "Y", "Z" >>

LowerLetters ==
  << "a", "b", "c", "d", "e", "f", "g", "h", "i", "j", "k", "l", "m",
     "n", "o", "p", "q", "r", "s", "t", "u", "v", "w", "x", "y", "z" >>

\* The KELVIN SIGN, a character outside ASCII named by its escape.
KelvinSign == "\\u212a"

\* mention.lower() == username.lower() for a username written in ASCII:
\* the mention has the characters of the username, each as it is, in the
\* other case, or, for k, as the Kelvin sign, whose lower case is k.  The
\* lower case of every other character outside ASCII holds a character
\* outside ASCII, so that a mention with such a character is not the
\* username.
SameMention(mention, username) ==
  LET Small(c) ==
        IF \E k \in DOMAIN UpperLetters : UpperLetters[k] = c
          THEN LowerLetters[CHOOSE k \in DOMAIN UpperLetters :
                              UpperLetters[k] = c]
          ELSE IF c = KelvinSign THEN "k" ELSE c
  IN /\ Len(mention) = Len(username)
     /\ \A i \in DOMAIN mention : Small(mention[i]) = Small(username[i])

\* The text a command filter reads: message.text or message.caption.
CommandText(msg) == IF msg.text # <<>> THEN msg.text ELSE msg.caption

\* text.split(maxsplit=1)[0]: the first word of the text, <<>> when the
\* text has none.
FirstWord(text) ==
  LET s == LStrip(text)
  IN IF \A i \in DOMAIN s : s[i] \notin Whitespace THEN s
     ELSE SubSeq(s, 1, (CHOOSE i \in DOMAIN s :
                          /\ s[i] \in Whitespace
                          /\ \A k \in 1..(i - 1) : s[k] \notin Whitespace) - 1)

\* CommandStart() on the text: its first word is the prefix "/", the command
\* start and, after an "@", nothing or the username of the bot in any case.
IsCommandStart(text) ==
  LET w == FirstWord(text)
      body == SubSeq(w, 2, Len(w))
      at == IF \E i \in DOMAIN body : body[i] = "@"
              THEN CHOOSE i \in DOMAIN body :
                     body[i] = "@" /\ \A k \in 1..(i - 1) : body[k] # "@"
              ELSE Len(body) + 1
      command == SubSeq(body, 1, at - 1)
      mention == SubSeq(body, at + 1, Len(body))
  IN /\ w # <<>>
     /\ w[1] = "/"
     /\ command = SubSeq(CmdStart, 2, Len(CmdStart))
     /\ mention = <<>> \/ SameMention(mention, BotUsername)

\* Mutant of ApiTokenFilter: the filter passes without a credential.
ApiTokenFilter_open(u) == [pass |-> TRUE, msgs |-> <<>>]

\* ApiTokenFilter.__call__: passes with the credential of the identity, or
\* answers the not-authorized message and fails.
ApiTokenFilter(u) ==
  IF get_api_token(u) = NoKey
    THEN [pass |-> FALSE, msgs |-> <<Msg("not_authorized", "none", "message")>>]
    ELSE [pass |-> TRUE, msgs |-> <<>>]

Reg(handler, filter, arg, auth) ==
  [handler |-> handler, filter |-> filter, arg |-> arg, auth |-> auth]

\* dp.message.register(...), in registration order.
MessageRegs ==
  << Reg("start_handler", "command", "start", TRUE),
     Reg("withdraw_input", "state", AwaitingWithdrawAddress, TRUE),
     Reg("check_payment_input", "state", AwaitingPaymentQuery, TRUE) >>

\* dp.callback_query.register(...), in registration order; arg names the Cb
\* attribute the lambda compares the data with.
CallbackRegs ==
  << Reg("delete_message_callback", "data", "DELETE_MESSAGE", FALSE),
     Reg("cancel_callback", "data", "BACK_TO_USER_MENU", TRUE),
     Reg("info_callback", "data", "BALANCE", TRUE),
     Reg("payments_history_callback", "data", "PAYMENTS_LAST", TRUE),
     Reg("withdraw_callback", "data", "WITHDRAW", TRUE),
     Reg("check_payment_callback", "data", "CHECK_PAYMENT", TRUE) >>

\* The first filter of a registration: whether it passes, or the exception
\* its evaluation raises.
FirstFilter(reg, st, msg, data) ==
  CASE reg.filter = "command" ->
         [exc |-> "none", pass |-> IsCommandStart(CommandText(msg))]
    [] reg.filter = "state" ->
         [exc |-> "none", pass |-> st = reg.arg]
    [] OTHER ->
         IF CbAttr(reg.arg).exc # "none"
           THEN [exc |-> CbAttr(reg.arg).exc, pass |-> FALSE]
           ELSE [exc |-> "none", pass |-> is_cb(data, CbAttr(reg.arg).value)]

\* The registrations are tried in order; the first whose filters all pass
\* gets the event.  A filter that raises ends the dispatch of the event.
RECURSIVE Route(_, _, _, _, _, _, _)
Route(regs, i, u, st, msg, data, msgs) ==
  IF i > Len(regs)
    THEN [handler |-> "none", msgs |-> msgs, exc |-> "none"]
    ELSE
      LET f == FirstFilter(regs[i], st, msg, data)
      IN IF f.exc # "none"
           THEN [handler |-> "none", msgs |-> msgs, exc |-> f.exc]
         ELSE IF ~f.pass
           THEN Route(regs, i + 1, u, st, msg, data, msgs)
         ELSE IF regs[i].auth /\ ~ApiTokenFilter(u).pass
           THEN Route(regs, i + 1, u, st, msg, data,
                      msgs \o ApiTokenFilter(u).msgs)
         ELSE [handler |-> regs[i].handler, msgs |-> msgs, exc |-> "none"]

\* One chat event from its delivery to the end of its handler.
Dispatch(regs, u, st, msg, data, remote) ==
  LET rt == Route(regs, 1, u, st, msg, data, <<>>)
  IN IF rt.handler = "none"
       THEN [handler |-> "none",
             run |-> Run(st, rt.msgs, <<>>, FALSE, rt.exc)]
       ELSE [handler |-> rt.handler,
             run |-> [RunHandler(rt.handler, st, msg.text, remote)
                        EXCEPT !.msgs = rt.msgs \o @]]

\* A callback handler entered under the ApiTokenFilter of its registration,
\* past the data predicate.
Enter(reg, u, st, remote) ==
  IF reg.auth /\ ~ApiTokenFilter(u).pass
    THEN [handler |-> "none",
          run |-> Run(st, ApiTokenFilter(u).msgs, <<>>, FALSE, "none")]
    ELSE [handler |-> reg.handler,
          run |-> RunHandler(reg.handler, st, <<>>, remote)]

(***************************************************************************)
(* webhook_handlers.py and new_deposit_notify                              *)
(***************************************************************************)

\* A webhook request: the shape of its body (text that is no JSON, JSON that
\* is no object, a JSON object), the X-API-Key header, and for an object its
\* message, the other keys it holds and its merchant_api_token.
WReq(shape, header, message, keys, token) ==
  [shape |-> shape, header |-> header, message |-> message, keys |-> keys,
   token |-> token]

DepositKeys == {"address", "amount", "new_status", "merchant_api_token"}

NoReq == WReq("none", "absent", "absent", {}, "none")

WebhookRequests ==
  { WReq(sh, hd, "absent", {}, "none") :
      sh \in {"unparseable", "list"},
      hd \in {"absent", "", "wrong", webhooks_api_key} }
  \cup
  { WReq("dict", hd, m, ks, t) :
      hd \in {"absent", "", "wrong", webhooks_api_key},
      m \in {"absent", "new_deposit", "payment_paid"},
      ks \in {DepositKeys, DepositKeys \ {"address"},
              DepositKeys \ {"merchant_api_token"}},
      t \in Tokens \cup {UnknownToken} }

\* What bot.send_message does for one recipient.
SendOutcomes == {"ok", "TelegramBadRequest", "TelegramForbiddenError"}

Fan(sends, logs, exc) == [sends |-> sends, logs |-> logs, exc |-> exc]

\* The loop of new_deposit_notify over admins_ids from position i: a
\* TelegramBadRequest is logged and the loop goes on; any other exception
\* leaves the loop and the function.
RECURSIVE SendLoop(_, _, _, _)
SendLoop(admins, i, outcomes, acc) ==
  IF i > Len(admins)
    THEN Fan(acc.sends, Append(acc.logs, "notifications_sent"), "none")
    ELSE
      LET sent == Append(acc.sends, [to |-> admins[i], result |-> outcomes[i]])
      IN CASE outcomes[i] = "ok" ->
                SendLoop(admins, i + 1, outcomes, Fan(sent, acc.logs, "none"))
           [] outcomes[i] = "TelegramBadRequest" ->
                SendLoop(admins, i + 1, outcomes,
                         Fan(sent, Append(acc.logs, "send_failed"), "none"))
           [] OTHER -> Fan(sent, acc.logs, outcomes[i])

\* Mutant of new_deposit_notify: the table is indexed, so a credential it
\* does not hold raises KeyError.
new_deposit_notify_indexed(token, outcomes) ==
  IF token \notin DOMAIN api_tokens
    THEN Fan(<<>>, <<>>, "KeyError")
    ELSE IF api_tokens[token] = <<>>
      THEN Fan(<<>>, <<"token_not_found">>, "none")
      ELSE SendLoop(api_tokens[token], 1, outcomes, Fan(<<>>, <<>>, "none"))

new_deposit_notify(token, outcomes) ==
  LET admins_ids == IF token \in DOMAIN api_tokens THEN api_tokens[token]
                    ELSE <<>>
  IN IF admins_ids = <<>>
       THEN Fan(<<>>, <<"token_not_found">>, "none")
       ELSE SendLoop(admins_ids, 1, outcomes, Fan(<<>>, <<>>, "none"))

Resp(status, sends, logs, exc) ==
  [status |-> status, sends |-> sends, logs |-> logs, exc |-> exc]

\* Mutant of handle_payment_webhook: the fan-out runs for every message.
handle_payment_webhook_any_message(req, outcomes) ==
  IF req.shape = "unparseable"
    THEN Resp(400, <<>>, <<"webhook_error">>, "JSONDecodeError")
  ELSE IF req.header \in {"absent", ""} \/ req.header # webhooks_api_key
    THEN Resp(403, <<>>, <<>>, "none")
  ELSE IF req.shape # "dict"
    THEN Resp(400, <<>>, <<"new_webhook", "webhook_error">>, "AttributeError")
  ELSE IF ~(DepositKeys \subseteq req.keys)
    THEN Resp(400, <<>>, <<"new_webhook", "webhook_error">>, "KeyError")
  ELSE
    LET f == new_deposit_notify(req.token, outcomes)
    IN IF f.exc # "none"
         THEN Resp(400, f.sends,
                   <<"new_webhook">> \o f.logs \o <<"webhook_error">>, f.exc)
         ELSE Resp(200, f.sends, <<"new_webhook">> \o f.logs, "none")

\* Mutant of handle_payment_webhook: the except clause does not cover the
\* fan-out, whose exception leaves the handler (the server answers 500).
handle_payment_webhook_uncaught(req, outcomes) ==
  IF req.shape = "unparseable"
    THEN Resp(400, <<>>, <<"webhook_error">>, "JSONDecodeError")
  ELSE IF req.header \in {"absent", ""} \/ req.header # webhooks_api_key
    THEN Resp(403, <<>>, <<>>, "none")
  ELSE IF req.shape # "dict"
    THEN Resp(400, <<>>, <<"new_webhook", "webhook_error">>, "AttributeError")
  ELSE IF req.message # "new_deposit"
    THEN Resp(200, <<>>, <<"new_webhook">>, "none")
  ELSE IF ~(DepositKeys \subseteq req.keys)
    THEN Resp(400, <<>>, <<"new_webhook", "webhook_error">>, "KeyError")
  ELSE
    LET f == new_deposit_notify(req.token, outcomes)
    IN IF f.exc # "none"
         THEN Resp(500, f.sends, <<"new_webhook">> \o f.logs, f.exc)
         ELSE Resp(200, f.sends, <<"new_webhook">> \o f.logs, "none")

\* Mutant of handle_payment_webhook: the secret is compared only when the
\* header is present and not empty.
handle_payment_webhook_lenient(req, outcomes) ==
  IF req.shape = "unparseable"
    THEN Resp(400, <<>>, <<"webhook_error">>, "JSONDecodeError")
  ELSE IF req.header \notin {"absent", ""} /\ req.header # webhooks_api_key
    THEN Resp(403, <<>>, <<>>, "none")
  ELSE IF req.shape # "dict"
    THEN Resp(400, <<>>, <<"new_webhook", "webhook_error">>, "AttributeError")
  ELSE IF req.message # "new_deposit"
    THEN Resp(200, <<>>, <<"new_webhook">>, "none")
  ELSE IF ~(DepositKeys \subseteq req.keys)
    THEN Resp(400, <<>>, <<"new_webhook", "webhook_error">>, "KeyError")
  ELSE
    LET f == new_deposit_notify(req.token, outcomes)
    IN IF f.exc # "none"
         THEN Resp(400, f.sends,
                   <<"new_webhook">> \o f.logs \o <<"webhook_error">>, f.exc)
         ELSE Resp(200, f.sends, <<"new_webhook">> \o f.logs, "none")

\* handle_payment_webhook: the response, with the sends and log lines of the
\* request and the exception its except clause caught.
handle_payment_webhook(req, outcomes) ==
  IF req.shape = "unparseable"
    THEN Resp(400, <<>>, <<"webhook_error">>, "JSONDecodeError")
  ELSE IF req.header \in {"absent", ""} \/ req.header # webhooks_api_key
    THEN Resp(403, <<>>, <<>>, "none")
  ELSE IF req.shape # "dict"
    THEN Resp(400, <<>>, <<"new_webhook", "webhook_error">>, "AttributeError")
  ELSE IF req.message # "new_deposit"
    THEN Resp(200, <<>>, <<"new_webhook">>, "none")
  ELSE IF ~(DepositKeys \subseteq req.keys)
    THEN Resp(400, <<>>, <<"new_webhook", "webhook_error">>, "KeyError")
  ELSE
    LET f == new_deposit_notify(req.token, outcomes)
    IN IF f.exc # "none"
         THEN Resp(400, f.sends,
                   <<"new_webhook">> \o f.logs \o <<"webhook_error">>, f.exc)
         ELSE Resp(200, f.sends, <<"new_webhook">> \o f.logs, "none")

(***************************************************************************)
(* The state machine                                                       *)
(*                                                                         *)
(* fsm   the conversation state of each identity (MemoryStorage)           *)
(* last  the chat event or webhook request whose handler took the last     *)
(*       step, with what the handler did                                   *)
(* tasks the handler tasks suspended at an await, a bag                     *)
(***************************************************************************)

CallbackData ==
  {Cb[a] : a \in DOMAIN Cb} \cup {"", "back_to_user_menu", "balance:1"}

\* repeat tells that the event before this one was the same event (the same
\* callback or text of the same identity, delivered the same way).
\* pending tells that the handler is suspended at an await and has more to
\* do.  The record of a handler that ran to its end in one step, or that is
\* suspended at its request or resumed from it, holds its run from the
\* start; Answered and Deleted record what the handler does in that step.
Last(via, kind, u, data, msg, pre, handler, run, remote, req, resp, repeat) ==
  [via |-> via, kind |-> kind, user |-> u, data |-> data, text |-> msg.text,
   caption |-> msg.caption, pending |-> FALSE,
   pre |-> pre, handler |-> handler, repeat |-> repeat, exc |-> run.exc, msgs |-> run.msgs,
   calls |-> run.calls, deleted |-> run.deleted, remote |-> remote,
   req |-> req, status |-> resp.status, sends |-> resp.sends,
   logs |-> resp.logs, caught |-> resp.exc]

NoResp == Resp(0, <<>>, <<>>, "none")

\* The storage is created empty by main(): every conversation is Idle.
Init ==
  /\ fsm = [u \in Users |-> Idle]
  /\ tasks = EmptyBag
  /\ last = Last("init", "none", "none", "", NoMessage, Idle, "none", Begin(Idle),
                 NoRemote, NoReq, NoResp, FALSE)

\* The event d (a routed or entered handler with its run) of identity u is
\* recorded and its conversation state stored.
Handled(via, kind, u, data, msg, d, remote) ==
  /\ fsm' = [fsm EXCEPT ![u] = d.run.state]
  /\ last' = Last(via, kind, u, data, msg, fsm[u], d.handler, d.run,
                  remote, NoReq, NoResp,
                  /\ last.via = via
                  /\ last.kind = kind
                  /\ last.user = u
                  /\ last.data = data
                  /\ last.text = msg.text
                  /\ last.caption = msg.caption)
  /\ UNCHANGED tasks

MaxTasks == 2

\* A task of withdraw_input suspended at an await: the identity and text of
\* its message, the handler, the conversation state it was routed on, and
\* the await it is suspended at:
\*   "post"    await post_json(...), the request in flight
\*   "answer"  await message.answer(...) of the result message
\*   "delete"  await message.delete(), after state.clear()
Task(u, text, handler, pre, at) ==
  [user |-> u, text |-> text, handler |-> handler, pre |-> pre, at |-> at]

\* The task t goes on to its next await.
Moved(t, at) ==
  (tasks (-) SetToBag({t})) (+) SetToBag({[t EXCEPT !.at = at]})

\* The handler of the message has issued its request and is suspended until
\* the response arrives; it has changed nothing yet.  last records the
\* event so far, as pending.
Suspended(u, msg, d0) ==
  /\ BagCardinality(tasks) < MaxTasks
  /\ tasks' = tasks (+) SetToBag({Task(u, msg.text, d0.handler, fsm[u],
                                      "post")})
  /\ last' = [Last("dispatch", "message", u, "", msg, fsm[u], d0.handler,
                   Run(fsm[u],
                       Route(MessageRegs, 1, u, fsm[u], msg, "", <<>>).msgs,
                       d0.run.calls, FALSE, "none"),
                   NoRemote, NoReq, NoResp, FALSE)
                EXCEPT !.pending = TRUE]
  /\ UNCHANGED fsm

\* The dispatch of an event depends on the identity, its conversation state
\* and the event only: Dispatch and Enter up to the first request, tabulated
\* over the identities, states and events of the model.
MessageDispatch ==
  [u \in Users, st \in States, msg \in Messages |->
     Dispatch(MessageRegs, u, st, msg, "", NoRemote)]

CallbackDispatch ==
  [u \in Users, st \in States, data \in CallbackData |->
     Dispatch(CallbackRegs, u, st, NoMessage, data, NoRemote)]

CallbackEnter ==
  [i \in DOMAIN CallbackRegs, u \in Users, st \in States |->
     Enter(CallbackRegs[i], u, st, NoRemote)]

\* The run of a message handler whose request is answered by remote,
\* tabulated the same way.
MessageRun ==
  [h \in {MessageRegs[i].handler : i \in DOMAIN MessageRegs}, st \in States,
   text \in Texts, remote \in HandlerRemotes |->
     RunHandler(h, st, text, remote)]

\* A message of identity u is delivered to the dispatcher, which handles
\* each update in a task of its own: the message is routed on the
\* conversation state of this moment.  A handler that makes no request runs
\* to its end; one that awaits post_json is suspended at the request.
DeliverMessage(u, msg) ==
  LET d0 == MessageDispatch[u, fsm[u], msg]
  IN IF d0.run.calls = <<>>
       THEN Handled("dispatch", "message", u, "", msg, d0, NoRemote)
       ELSE Suspended(u, msg, d0)

\* The response of a request in flight arrives and the suspended handler
\* resumes, on the conversation state of this moment.  On an error of the
\* request it runs to its end in this step: its answer raises before
\* anything is sent or written.  On a payload it sends the result message
\* and is suspended at that await; state.clear() and message.delete(), the
\* two statements after it, are left to Answered and Deleted.  run is the
\* run of the whole handler: it ends with the message deleted on this path
\* and on no other.
Resume(remote) ==
  \E t \in BagToSet(tasks) :
    /\ t.at = "post"
    /\ LET run == MessageRun[t.handler, fsm[t.user], t.text, remote]
       IN IF run.deleted
            THEN /\ last' = [Last("dispatch", "message", t.user, "",
                                  Message(t.text, <<>>), t.pre, t.handler,
                                  [run EXCEPT !.state = fsm[t.user],
                                              !.deleted = FALSE],
                                  remote, NoReq, NoResp, FALSE)
                               EXCEPT !.pending = TRUE]
                 /\ tasks' = Moved(t, "answer")
                 /\ UNCHANGED fsm
            ELSE /\ fsm' = [fsm EXCEPT ![t.user] = run.state]
                 /\ last' = Last("dispatch", "message", t.user, "",
                                 Message(t.text, <<>>), t.pre, t.handler, run,
                                 remote, NoReq, NoResp, FALSE)
                 /\ tasks' = tasks (-) SetToBag({t})

\* The result message is sent: the handler resumes with state.clear() and
\* is suspended at message.delete().  last records this step of the event.
Answered ==
  \E t \in BagToSet(tasks) :
    /\ t.at = "answer"
    /\ LET run == Clear(Begin(fsm[t.user]))
       IN /\ fsm' = [fsm EXCEPT ![t.user] = run.state]
          /\ last' = [Last("dispatch", "message", t.user, "",
                           Message(t.text, <<>>), t.pre, t.handler, run,
                           NoRemote, NoReq, NoResp, FALSE)
                        EXCEPT !.pending = TRUE]
    /\ tasks' = Moved(t, "delete")

\* The message is deleted and the handler returns.
Deleted ==
  \E t \in BagToSet(tasks) :
    /\ t.at = "delete"
    /\ last' = Last("dispatch", "message", t.user, "", Message(t.text, <<>>),
                    t.pre, t.handler, Delete(Begin(fsm[t.user])), NoRemote,
                    NoReq, NoResp, FALSE)
    /\ tasks' = tasks (-) SetToBag({t})
    /\ UNCHANGED fsm

\* A callback query of identity u is delivered to the dispatcher.
DeliverCallback(u, data) ==
  LET d0 == CallbackDispatch[u, fsm[u], data]
  IN IF d0.run.calls = <<>>
       THEN Handled("dispatch", "callback", u, data, NoMessage, d0, NoRemote)
       ELSE \E remote \in HandlerRemotes :
              Handled("dispatch", "callback", u, data, NoMessage,
                      Dispatch(CallbackRegs, u, fsm[u], NoMessage, data, remote),
                      remote)

\* The sends a request leads to when none fails: the sends whose outcome
\* the chat transport decides.
Recipients(req) ==
  LET n == IF req.token \in DOMAIN api_tokens
             THEN Len(api_tokens[req.token]) ELSE 0
  IN Len(handle_payment_webhook(req, [i \in 1..n |-> "ok"]).sends)

\* The payments API posts to /webhook; outcomes[i] is what the chat
\* transport does with the send to the i-th recipient.
Webhook(req) ==
  \E outcomes \in [1..Recipients(req) -> SendOutcomes] :
    /\ UNCHANGED <<fsm, tasks>>
    /\ last' = Last("webhook", "webhook", "none", "", NoMessage, Idle, "none",
                    Begin(Idle), NoRemote, req,
                    handle_payment_webhook(req, outcomes), FALSE)

\* A callback handler is called under the ApiTokenFilter of its
\* registration, its data predicate taken as matched.
EnterCallback(i, u) ==
  LET d0 == CallbackEnter[i, u, fsm[u]]
      data == IF CallbackRegs[i].arg \in DOMAIN Cb
                THEN Cb[CallbackRegs[i].arg] ELSE "back_to_user_menu"
  IN IF d0.run.calls = <<>>
       THEN Handled("handler", "callback", u, data, NoMessage, d0, NoRemote)
       ELSE \E remote \in HandlerRemotes :
              Handled("handler", "callback", u, data, NoMessage,
                      Enter(CallbackRegs[i], u, fsm[u], remote), remote)

\* The program as bot.py wires it: events reach the handlers through the
\* dispatcher, webhook requests through the web application.
Next ==
  \/ \E u \in Users, msg \in Messages : DeliverMessage(u, msg)
  \/ \E u \in Users, data \in CallbackData : DeliverCallback(u, data)
  \/ \E req \in WebhookRequests : Webhook(req)

Spec == Init /\ [][Next]_vars

\* The same with the callback handlers also entered directly.  Under Next
\* the data predicate of cancel_callback's registration raises for every
\* callback but delete_message, so no other callback handler runs and no
\* conversation leaves Idle; HandlerSpec is the specification in which the
\* handlers of the Awaiting states are exercised.
\* Resume, Answered and Deleted belong to the program as wired too, but
\* there no request is ever in flight: withdraw_input, the one handler whose request is issued, is
\* reached only from AwaitingWithdrawAddress.  The webhook is left to Spec:
\* handle_payment_webhook and new_deposit_notify neither read nor write a
\* conversation state, and no chat handler reads what they do.
HandlerNext ==
  \/ \E u \in Users, msg \in Messages : DeliverMessage(u, msg)
  \/ \E u \in Users, data \in CallbackData : DeliverCallback(u, data)
  \/ \E i \in DOMAIN CallbackRegs, u \in Users : EnterCallback(i, u)
  \/ \E remote \in HandlerRemotes : Resume(remote)
  \/ Answered
  \/ Deleted

HandlerSpec == Init /\ [][HandlerNext]_vars

(***************************************************************************)
(* Updates handled as concurrent tasks                                     *)
(*                                                                         *)
(* dp.start_polling(bot) handles every update in a task of its own: the    *)
(* filters of an update are evaluated when it is delivered, and a handler  *)
(* that awaits post_json is suspended until the response arrives, while    *)
(* other updates are delivered.  withdraw_input is split at its awaits:    *)
(* TaskBegin runs it up to the request, TaskResume from the response to    *)
(* the result message, TaskAnswered does state.clear() and TaskDeleted     *)
(* ends it after message.delete().                                         *)
(* As in HandlerSpec, withdraw_callback is entered directly.               *)
(***************************************************************************)

MaxEntries == 2

MaxPosts == 2

\* entries[u] counts the entries of u into AwaitingWithdrawAddress, posts[u]
\* the withdrawal requests issued for u.
Progress(kind, u, entries, posts) ==
  [via |-> "task", kind |-> kind, user |-> u, entries |-> entries,
   posts |-> posts]

TaskInit ==
  /\ fsm = [u \in Users |-> Idle]
  /\ tasks = EmptyBag
  /\ last = Progress("init", "none", [u \in Users |-> 0], [u \in Users |-> 0])

WithdrawReg ==
  CallbackRegs[CHOOSE i \in DOMAIN CallbackRegs :
                 CallbackRegs[i].handler = "withdraw_callback"]

\* withdraw_callback is called for identity u under its ApiTokenFilter.
TaskEnter(u) ==
  LET d == Enter(WithdrawReg, u, fsm[u], NoRemote)
  IN /\ last.entries[u] < MaxEntries
     /\ fsm' = [fsm EXCEPT ![u] = d.run.state]
     /\ last' = Progress("enter", u,
                         IF d.handler = "withdraw_callback"
                           THEN [last.entries EXCEPT ![u] = @ + 1]
                           ELSE last.entries,
                         last.posts)
     /\ UNCHANGED tasks

\* A message of identity u is delivered: it is routed on the conversation
\* state of this moment.  A handler that makes no request runs to its end;
\* withdraw_input with an address of the right format issues its POST and
\* is suspended.
TaskBegin(u, msg) ==
  LET d0 == MessageDispatch[u, fsm[u], msg]
  IN IF d0.run.calls = <<>>
       THEN /\ fsm' = [fsm EXCEPT ![u] = d0.run.state]
            /\ last' = Progress("message", u, last.entries, last.posts)
            /\ UNCHANGED tasks
       ELSE /\ last.posts[u] < MaxPosts
            /\ tasks' = tasks (+) SetToBag({Task(u, msg.text, d0.handler,
                                                fsm[u], "post")})
            /\ last' = Progress("begin", u, last.entries,
                                [last.posts EXCEPT ![u] = @ + 1])
            /\ UNCHANGED fsm

\* The response of a request of identity u arrives: withdraw_input resumes,
\* on the conversation state of this moment.  On an error of the request it
\* ends in this step; on a payload it sends the result message and is
\* suspended at that await.
TaskResume(u, remote) ==
  \E t \in BagToSet(tasks) :
    /\ t.user = u /\ t.at = "post"
    /\ LET run == MessageRun[t.handler, fsm[u], t.text, remote]
       IN IF run.deleted
            THEN /\ tasks' = Moved(t, "answer")
                 /\ UNCHANGED fsm
            ELSE /\ fsm' = [fsm EXCEPT ![u] = run.state]
                 /\ tasks' = tasks (-) SetToBag({t})
    /\ last' = Progress("response", u, last.entries, last.posts)

\* The result message of a task of identity u is sent: the handler resumes
\* with state.clear() and is suspended at message.delete().
TaskAnswered(u) ==
  \E t \in BagToSet(tasks) :
    /\ t.user = u /\ t.at = "answer"
    /\ fsm' = [fsm EXCEPT ![u] = Clear(Begin(fsm[u])).state]
    /\ tasks' = Moved(t, "delete")
    /\ last' = Progress("clear", u, last.entries, last.posts)

\* The message of a task of identity u is deleted and the handler returns.
TaskDeleted(u) ==
  \E t \in BagToSet(tasks) :
    /\ t.user = u /\ t.at = "delete"
    /\ tasks' = tasks (-) SetToBag({t})
    /\ last' = Progress("delete", u, last.entries, last.posts)
    /\ UNCHANGED fsm

TaskNext ==
  \/ \E u \in Users : TaskEnter(u)
  \/ \E u \in Users, msg \in Messages : TaskBegin(u, msg)
  \/ \E u \in Users, remote \in HandlerRemotes : TaskResume(u, remote)
  \/ \E u \in Users : TaskAnswered(u)
  \/ \E u \in Users : TaskDeleted(u)

TaskSpec == TaskInit /\ [][TaskNext]_vars

(***************************************************************************)
(* The API client on its own: get_json and post_json are functions of the  *)
(* call and of what the remote answers.  The initial state draws a call    *)
(* and the answers; the actions make the call and record what its caller   *)
(* sees.                                                                   *)
(***************************************************************************)

\* The keyword sets get_json is called with: those of its signature, and
\* the one get_merchant_info_text passes (handlers.py:43-49).
GetJsonCalls ==
  { {"endpoint", "headers"},
    {"endpoint", "headers", "timeout"},
    {"endpoint", "headers", "params"},
    InfoKw }

PostJsonCall == {"endpoint", "headers", "json_body"}

NoResult == ApiResult("none", 0, NoPayload, "none", 0)

ClientCall(stage, method, kw, remote, result) ==
  [via |-> "client", stage |-> stage, method |-> method, kw |-> kw,
   remote |-> remote, result |-> result]

ClientInit ==
  /\ fsm = [u \in Users |-> Idle]
  /\ tasks = EmptyBag
  /\ last \in
       { ClientCall("call", "GET", kw, remote, NoResult) :
           kw \in GetJsonCalls, remote \in RemoteOutcomes }
         \cup { ClientCall("call", "POST", PostJsonCall, remote, NoResult) :
                  remote \in RemoteOutcomes }

ClientGet ==
  /\ last.stage = "call"
  /\ last.method = "GET"
  /\ last' = [last EXCEPT !.stage = "result",
                          !.result = get_json(last.kw, last.remote)]
  /\ UNCHANGED <<fsm, tasks>>

ClientPost ==
  /\ last.stage = "call"
  /\ last.method = "POST"
  /\ last' = [last EXCEPT !.stage = "result",
                          !.result = post_json(last.remote)]
  /\ UNCHANGED <<fsm, tasks>>

ClientNext == ClientGet \/ ClientPost

ClientSpec == ClientInit /\ [][ClientNext]_vars

(***************************************************************************)
(* callbacks.py: the codec of callback data                                *)
(*                                                                         *)
(* A string is a sequence of characters.  The codec is applied to every    *)
(* name and argument list within the bounds: last holds the input, then    *)
(* the packed data, then what unpack makes of it.                          *)
(***************************************************************************)

Sep == ":"

Alphabet == {"a", Sep}

MaxCompLen == 2

MaxArgs == 2

SeqsUpTo(S, n) == UNION {[1..k -> S] : k \in 0..n}

Components == SeqsUpTo(Alphabet, MaxCompLen)

ArgLists == SeqsUpTo(Components, MaxArgs)

\* sep.join(parts), for a list that is not empty.
RECURSIVE Join(_)
Join(parts) ==
  IF Len(parts) = 1 THEN parts[1]
  ELSE parts[1] \o <<Sep>> \o Join(Tail(parts))

\* s.split(sep): the pieces of s between its separators.
RECURSIVE Split(_)
Split(s) ==
  IF \A i \in DOMAIN s : s[i] # Sep THEN <<s>>
  ELSE LET i == CHOOSE k \in DOMAIN s :
                  s[k] = Sep /\ \A m \in 1..(k - 1) : s[m] # Sep
       IN <<SubSeq(s, 1, i - 1)>> \o Split(SubSeq(s, i + 1, Len(s)))

pack(name, args) == Join(<<name>> \o args)

\* Mutant of unpack: the data is split at its first separator only.
unpack_once(data) ==
  IF \A i \in DOMAIN data : data[i] # Sep THEN <<data, <<>>>>
  ELSE LET i == CHOOSE k \in DOMAIN data :
                  data[k] = Sep /\ \A m \in 1..(k - 1) : data[m] # Sep
       IN <<SubSeq(data, 1, i - 1), <<SubSeq(data, i + 1, Len(data))>>>>

unpack(data) ==
  LET parts == Split(data)
  IN <<parts[1], Tail(parts)>>

\* s.startswith(p)
StartsWith(s, p) == Len(s) >= Len(p) /\ SubSeq(s, 1, Len(p)) = p

\* is_cb_prefix(data, name), for data that is not None.
is_cb_prefix(data, name) == StartsWith(data, name \o <<Sep>>)

\* probe is the name the packed data is tested against, prefix the result
\* of the test.
Codec(stage, name, args, data, out) ==
  [via |-> "codec", stage |-> stage, name |-> name, args |-> args,
   data |-> data, out |-> out, probe |-> <<>>, prefix |-> FALSE]

CodecInit ==
  /\ fsm = [u \in Users |-> Idle]
  /\ tasks = EmptyBag
  /\ \E name \in Components, args \in ArgLists :
       last = Codec("input", name, args, <<>>, <<>>)

Pack ==
  /\ last.stage = "input"
  /\ last' = [last EXCEPT !.stage = "packed",
                          !.data = pack(last.name, last.args)]
  /\ UNCHANGED <<fsm, tasks>>

Unpack ==
  /\ last.stage = "packed"
  /\ last' = [last EXCEPT !.stage = "unpacked", !.out = unpack(last.data)]
  /\ UNCHANGED <<fsm, tasks>>

\* The packed data is tested for the prefix of a name.
Prefix(name) ==
  /\ last.stage = "packed"
  /\ last' = [last EXCEPT !.stage = "tested", !.probe = name,
                          !.prefix = is_cb_prefix(last.data, name)]
  /\ UNCHANGED <<fsm, tasks>>

CodecNext ==
  \/ Pack
  \/ Unpack
  \/ \E name \in Components : Prefix(name)

CodecSpec == CodecInit /\ [][CodecNext]_vars

(***************************************************************************)
(* handlers.py: the address check of withdraw_input on its own             *)
(*                                                                         *)
(* withdraw_input is run, in AwaitingWithdrawAddress, on a family of       *)
(* texts around a valid address: every single-character change of it,      *)
(* every length around the right one, and the same with whitespace around. *)
(***************************************************************************)

\* The characters a text is varied with: the class of the pattern, the
\* four characters it leaves out, and some that are no letter or digit.
AddrChars ==
  Base58 \cup {"0", "I", "O", "l", " ", "\n", "\r", "\\x1c", "\\u2003", "-", "t"}

AddrVariants ==
  { [ValidAddr EXCEPT ![p] = c] : p \in 1..(AddrTail + 1), c \in AddrChars }

AddrLengths == { <<"T">> \o Rep("z", n) : n \in 0..(AddrTail + 2) }

AddrInputs ==
  LET plain == AddrVariants \cup AddrLengths \cup Texts
                 \cup {ValidAddr2, LongAddr, EllAddr, InnerSpaceAddr, PrefixAddr}
  IN plain \cup { <<w>> \o a \o <<w>> : a \in AddrLengths, w \in Whitespace }

\* The remote accepts the withdrawal.
RemoteAccepts ==
  <<Reply("response", 200, Body(TRUE, "dict", "true", "absent", "absent"),
          "absent")>>

AddrCheck(stage, text, run) ==
  [via |-> "address", stage |-> stage, text |-> text, calls |-> run.calls,
   exc |-> run.exc, state |-> run.state]

AddressInit ==
  /\ fsm = [u \in Users |-> Idle]
  /\ tasks = EmptyBag
  /\ \E text \in AddrInputs :
       last = AddrCheck("input", text, Begin(AwaitingWithdrawAddress))

\* The text is handled by withdraw_input.
CheckAddress ==
  /\ last.stage = "input"
  /\ last' = AddrCheck("checked", last.text,
                       withdraw_input(AwaitingWithdrawAddress, last.text,
                                      RemoteAccepts))
  /\ UNCHANGED <<fsm, tasks>>

AddressNext == CheckAddress

AddressSpec == AddressInit /\ [][AddressNext]_vars

(***************************************************************************)
(* Properties                                                              *)
(***************************************************************************)

\* The identity is enrolled under some credential of the table.
Enrolled(u) == \E t \in DOMAIN api_tokens : u \in SeqRange(api_tokens[t])

Sent(text) == \E i \in DOMAIN last.msgs : last.msgs[i].text = text

ChatEvent == last.kind \in {"message", "callback"}

Routed == last.via = "dispatch"

PrivilegedCallbacks ==
  {"balance", "payments_last", "withdraw", "check_payment", "cancel"}

\* The last event is one of the privileged chat events: /start, one of the
\* privileged callbacks, or a text while the conversation awaits an input.
PrivilegedEvent ==
  \/ last.kind = "message" /\ IsCommandStart(CommandText(last))
  \/ last.kind = "callback" /\ last.data \in PrivilegedCallbacks
  \/ last.kind = "message"
       /\ last.pre \in {AwaitingWithdrawAddress, AwaitingPaymentQuery}

\* C1: every privileged chat event of an identity without a credential is
\* answered with the not-authorized message, runs no handler, issues no
\* remote call and leaves the conversation state as it was.
C1_UnenrolledGetsNotAuthorized ==
  (Routed /\ ChatEvent /\ ~Enrolled(last.user) /\ PrivilegedEvent) =>
    /\ Sent("not_authorized")
    /\ last.handler = "none"
    /\ last.calls = <<>>
    /\ fsm[last.user] = last.pre

\* C2: the callback withdraw of an authorized identity in Idle leaves the
\* conversation in AwaitingWithdrawAddress with the address prompt sent.
C2_WithdrawPrompts ==
  (Routed /\ last.kind = "callback" /\ last.data = "withdraw"
     /\ Enrolled(last.user) /\ last.pre = Idle) =>
    /\ fsm[last.user] = AwaitingWithdrawAddress
    /\ Sent("withdraw_prompt")

\* The last event is a text handled by withdraw_input while the conversation
\* of an authorized identity awaited the address.
WithdrawText ==
  /\ last.kind = "message"
  /\ ~last.pending
  /\ last.handler = "withdraw_input"
  /\ Enrolled(last.user)
  /\ last.pre = AwaitingWithdrawAddress

\* C3: a text with a valid address, received in AwaitingWithdrawAddress,
\* ends in Idle whatever the remote outcome of the withdrawal is.
C3_ValidAddressEndsIdle ==
  (WithdrawText /\ TronAddressMatch(Strip(last.text))) =>
    fsm[last.user] = Idle

\* C4: a text whose trimmed form does not match the address format, received
\* by an authorized identity in AwaitingWithdrawAddress, leaves the state at
\* AwaitingWithdrawAddress.
C4_InvalidAddressStays ==
  (last.kind = "message" /\ Enrolled(last.user)
     /\ last.pre = AwaitingWithdrawAddress
     /\ ~TronAddressMatch(Strip(last.text))) =>
    fsm[last.user] = AwaitingWithdrawAddress

C4_Witness ==
  /\ WithdrawText
  /\ ~TronAddressMatch(Strip(last.text))
  /\ Strip(last.text) # <<>>
  /\ fsm[last.user] = AwaitingWithdrawAddress

\* C5: a POST to merchant/balance/withdraw carries a to_address that passed
\* the format check, and a text that fails the check causes no remote call.
C5_PostOnlyValidAddress ==
  /\ \A i \in DOMAIN last.calls :
       last.calls[i].method = "POST" =>
         /\ last.calls[i].endpoint = "merchant/balance/withdraw"
         /\ TronAddressMatch(last.calls[i].arg)
         /\ last.calls[i].arg = Strip(last.text)
  /\ (last.kind = "message" /\ last.handler = "withdraw_input"
        /\ ~TronAddressMatch(Strip(last.text))) => last.calls = <<>>

C5_Witness ==
  /\ WithdrawText
  /\ last.text = PaddedAddr
  /\ last.calls = <<Call("POST", "merchant/balance/withdraw", ValidAddr)>>

\* C6: a text handled as a payment query in AwaitingPaymentQuery ends in
\* Idle, whatever the lookup returns.
C6_PaymentQueryEndsIdle ==
  (last.kind = "message" /\ last.handler = "check_payment_input"
     /\ Enrolled(last.user) /\ last.pre = AwaitingPaymentQuery
     /\ Strip(last.text) # <<>>) =>
    fsm[last.user] = Idle

\* C7: the callback cancel of an authorized identity, delivered in any
\* conversation state, leaves the conversation in Idle.
C7_CancelEndsIdle ==
  (Routed /\ last.kind = "callback" /\ last.data = Cb.CANCEL
     /\ Enrolled(last.user)) =>
    fsm[last.user] = Idle

\* C8 as stated: the callback delete_message, delivered in any conversation
\* state, leaves the conversation in Idle.
C8_DeleteMessageEndsIdle ==
  (Routed /\ last.kind = "callback" /\ last.data = Cb.DELETE_MESSAGE) =>
    fsm[last.user] = Idle

\* C8 as amended: the callback delete_message removes the message and
\* leaves the conversation state as it was.
C8_DeleteMessageKeepsState ==
  (Routed /\ last.kind = "callback" /\ last.data = Cb.DELETE_MESSAGE) =>
    /\ last.handler = "delete_message_callback"
    /\ last.deleted
    /\ fsm[last.user] = last.pre

C8_Witness ==
  /\ Routed
  /\ last.handler = "delete_message_callback"
  /\ last.pre = AwaitingWithdrawAddress
  /\ fsm[last.user] = AwaitingWithdrawAddress
  /\ last.deleted

\* The last event is a webhook request whose secret header is absent, empty
\* or not the configured secret.
BadSecretRequest ==
  /\ last.kind = "webhook"
  /\ last.req.header # webhooks_api_key

\* C9 as stated: a webhook request with a bad secret is answered 403 and
\* sends no notification, whatever its body.
C9_BadSecretIs403 ==
  BadSecretRequest => (last.status = 403 /\ last.sends = <<>>)

\* C9 as amended: a webhook request with a bad secret sends no notification;
\* it is answered 403 when its body parses as JSON and 400 when it does not.
C9_BadSecretNoFanOut ==
  BadSecretRequest =>
    /\ last.sends = <<>>
    /\ last.status = IF last.req.shape = "unparseable" THEN 400 ELSE 403

C9_Witness ==
  /\ BadSecretRequest
  /\ last.req.header = ""
  /\ last.req.shape = "dict"
  /\ last.req.message = "new_deposit"
  /\ last.req.keys = DepositKeys
  /\ last.req.token = "tokA"
  /\ last.status = 403

\* The last event is a deposit webhook that reached the fan-out for a
\* credential with enrolled identities.
FanOutRan ==
  /\ last.kind = "webhook"
  /\ last.req.header = webhooks_api_key
  /\ last.req.shape = "dict"
  /\ last.req.message = "new_deposit"
  /\ DepositKeys \subseteq last.req.keys
  /\ last.req.token \in DOMAIN api_tokens
  /\ api_tokens[last.req.token] # <<>>

\* C10: in a fan-out, the send is attempted to every enrolled identity
\* whatever happens to the sends before it, and no failure of a send is
\* raised to the webhook handler.
C10_FanOutIsolated ==
  FanOutRan =>
    /\ \A i \in DOMAIN api_tokens[last.req.token] :
         \E j \in DOMAIN last.sends :
           last.sends[j].to = api_tokens[last.req.token][i]
    /\ last.caught = "none"

\* C11: a deposit webhook for a credential with N enrolled identities
\* attempts exactly N sends, one per identity in the order of the list,
\* before it responds.
C11_ExactlyOneSendEach ==
  FanOutRan =>
    /\ Len(last.sends) = Len(api_tokens[last.req.token])
    /\ \A i \in DOMAIN last.sends :
         last.sends[i].to = api_tokens[last.req.token][i]
    /\ last.status # 0

\* The last event is a webhook request with the configured secret and a
\* body that is a JSON object.
GoodObjectRequest ==
  /\ last.kind = "webhook"
  /\ last.req.header = webhooks_api_key
  /\ last.req.shape = "dict"

\* C12: a webhook request with the correct secret and a JSON object whose
\* message is not new_deposit, or is absent, is answered 200 and sends no
\* notification.
C12_OtherMessageIgnored ==
  (GoodObjectRequest /\ last.req.message # "new_deposit") =>
    (last.status = 200 /\ last.sends = <<>>)

C12_Witness ==
  /\ GoodObjectRequest
  /\ last.req.message = "payment_paid"
  /\ last.req.keys = DepositKeys
  /\ last.req.token = "tokA"
  /\ last.status = 200

\* C13: a deposit webhook with the correct secret whose credential is not
\* in the table, or has no identity enrolled, sends no notification and is
\* answered 200.
C13_UnknownCredentialIsNoError ==
  (GoodObjectRequest /\ last.req.message = "new_deposit"
     /\ DepositKeys \subseteq last.req.keys
     /\ (last.req.token \notin DOMAIN api_tokens
           \/ api_tokens[last.req.token] = <<>>)) =>
    /\ last.status = 200
    /\ last.sends = <<>>
    /\ last.caught = "none"
    /\ last.logs = <<"new_webhook", "token_not_found">>

C13_Witness ==
  /\ GoodObjectRequest
  /\ last.req.message = "new_deposit"
  /\ last.req.keys = DepositKeys
  /\ last.req.token = UnknownToken
  /\ last.status = 200

\* C14: every webhook request is answered with 200, 403 or 400; an
\* unparseable body and every exception raised while the request is handled
\* (a missing field, a body that is no object, a failed fan-out) give 400.
C14_WebhookAlwaysAnswers ==
  last.kind = "webhook" =>
    /\ last.status \in {200, 403, 400}
    /\ last.req.shape = "unparseable" => last.status = 400
    /\ last.caught # "none" => last.status = 400
    /\ last.status = 400 => last.caught # "none"

C14_Witness ==
  /\ FanOutRan
  /\ last.caught = "TelegramForbiddenError"
  /\ last.status = 400

\* A client call has been made and an HTTP request was issued for it.
ClientRequested ==
  last.via = "client" /\ last.stage = "result" /\ last.result.requests > 0

\* C15: for get and post and every status s the remote returns, the call
\* returns the decoded (or raw-text) payload if and only if 200 <= s <= 299,
\* and otherwise raises the API error carrying exactly s and the payload; a
\* transport failure is raised as another error, which carries no status.
\* s is the status of the remote's reply to the request of the call.
C15_StatusClassification ==
  ClientRequested =>
    LET reply == last.remote[1]
    IN /\ reply.kind = "response" =>
            /\ last.result.kind \in {"ok", "api_error"}
            /\ last.result.kind = "ok" <=>
                 (200 <= reply.status /\ reply.status <= 299)
            /\ last.result.status = reply.status
            /\ last.result.payload = DecodeBody(ResponseBody(reply))
            /\ last.result.exc = "none"
       /\ reply.kind = "transport" =>
            /\ last.result.kind = "exception"
            /\ last.result.exc = "TransportError"
            /\ last.result.status = 0
            /\ last.result.payload = NoPayload

\* The last chat event issued a request to the remote API and the client
\* call has ended: last.remote is what the remote answered.
RemoteCalled == ChatEvent /\ last.calls # <<>> /\ last.remote # NoRemote

\* What the client call of the last chat event gave its caller.
ClientOutcome ==
  Classify(http_request_json(last.calls[1].method, last.remote))

\* C16: in every handler that calls the remote API, an API error with a
\* status of 500 or more, and a transport failure, make the handler send
\* the generic service-unavailable message, and no exception leaves the
\* handler.
C16_ServerErrorIsUnavailable ==
  (RemoteCalled
     /\ \/ ClientOutcome.kind = "exception"
        \/ ClientOutcome.kind = "api_error" /\ ClientOutcome.status >= 500) =>
    (Sent(_service_unavailable) /\ last.exc = "none")

\* C17: in every handler that calls the remote API, an API error with a 4xx
\* status is reported with a message of its own, not with the generic
\* service-unavailable message; on payment lookup a 404 gives the not-found
\* message.
C17_ClientErrorIsSpecific ==
  (RemoteCalled /\ ClientOutcome.kind = "api_error"
     /\ 400 <= ClientOutcome.status /\ ClientOutcome.status <= 499) =>
    /\ last.msgs # <<>>
    /\ ~Sent(_service_unavailable)
    /\ (last.handler = "check_payment_input" /\ ClientOutcome.status = 404) =>
         Sent("payment_not_found")

\* C18: there is no retry: a handled chat event issues at most one HTTP
\* request to the remote API, and a request that failed is not issued again.
\* last.calls holds the HTTP requests of the event, in the order issued.
C18_AtMostOneRequest ==
  ChatEvent => Len(last.calls) <= 1

\* The last event is a callback that was handled twice in a row: the event
\* before it was the same callback of the same identity.
DuplicateCallback == last.kind = "callback" /\ last.repeat

\* C19: a callback delivered twice to the same conversation leaves the
\* conversation state it left the first time, for each of withdraw,
\* check_payment, cancel, delete_message, balance and payments_last.
C19_DuplicateCallbackIdempotent ==
  (DuplicateCallback
     /\ last.data \in {"withdraw", "check_payment", "cancel",
                       "delete_message", "balance", "payments_last"}) =>
    fsm[last.user] = last.pre

C19_Witness ==
  /\ DuplicateCallback
  /\ last.handler = "withdraw_callback"
  /\ last.pre = AwaitingWithdrawAddress
  /\ fsm[last.user] = AwaitingWithdrawAddress

\* No character of the component is the separator.
NoSep(c) == \A i \in DOMAIN c : c[i] # Sep

\* C20: for every name and every list of args none of which contains the
\* separator ':', unpack(pack(name, args...)) is exactly (name, args).
C20_CodecRoundTrip ==
  (last.stage = "unpacked" /\ NoSep(last.name)
     /\ \A i \in DOMAIN last.args : NoSep(last.args[i])) =>
    last.out = <<last.name, last.args>>

C20_Witness ==
  /\ last.stage = "unpacked"
  /\ last.name = <<"a", "a">>
  /\ last.args = << <<"a">>, <<>> >>
  /\ last.data = <<"a", "a", Sep, "a", Sep>>
  /\ last.out = <<last.name, last.args>>

\* C21: for every token and name, is_cb_prefix(token, name) is true exactly
\* when the token is the name or starts with the name followed by ':'.
C21_PrefixOrEqual ==
  last.stage = "tested" =>
    (last.prefix <=>
       \/ last.data = last.probe
       \/ StartsWith(last.data, last.probe \o <<Sep>>))

Digits == {"0", "1", "2", "3", "4", "5", "6", "7", "8", "9"}

UpperCase ==
  {"A", "B", "C", "D", "E", "F", "G", "H", "I", "J", "K", "L", "M",
   "N", "O", "P", "Q", "R", "S", "T", "U", "V", "W", "X", "Y", "Z"}

LowerCase ==
  {"a", "b", "c", "d", "e", "f", "g", "h", "i", "j", "k", "l", "m",
   "n", "o", "p", "q", "r", "s", "t", "u", "v", "w", "x", "y", "z"}

\* The base58 alphabet: the digits and letters without 0, I, O and l.
Base58Alphabet ==
  (Digits \cup UpperCase \cup LowerCase) \ {"0", "I", "O", "l"}

\* The check accepted the text: withdraw_input went on to post it.
AddressAccepted ==
  last.calls = <<Call("POST", "merchant/balance/withdraw", Strip(last.text))>>

\* C22: the address check accepts the address it is given (the text without
\* the whitespace around it) exactly when it is 'T' followed by exactly 33
\* characters of the base58 alphabet; every other length and every other
\* character is rejected, with no request made.
C22_AddressFormat ==
  last.stage = "checked" =>
    LET a == Strip(last.text)
    IN /\ AddressAccepted <=>
            /\ Len(a) = 34
            /\ a[1] = "T"
            /\ \A i \in 2..34 : a[i] \in Base58Alphabet
       /\ ~AddressAccepted => last.calls = <<>>

C22_Witness ==
  /\ last.stage = "checked"
  /\ last.text = [ValidAddr EXCEPT ![AddrTail + 1] = "9"]
  /\ AddressAccepted

\* C23: each entry into AwaitingWithdrawAddress leads to at most one
\* withdrawal POST, also when two texts with a valid address are handled as
\* concurrent tasks: an identity never has more POSTs than entries.
C23_OnePostPerEntry ==
  \A u \in Users : last.posts[u] <= last.entries[u]

\* C24: in every reachable state an identity whose conversation is in
\* AwaitingWithdrawAddress or AwaitingPaymentQuery has a credential, and an
\* identity without a credential is in Idle.
C24_AwaitingIsEnrolled ==
  \A u \in Users :
    /\ fsm[u] \in {AwaitingWithdrawAddress, AwaitingPaymentQuery} => Enrolled(u)
    /\ ~Enrolled(u) => fsm[u] = Idle

\* An identity without a credential has just had withdraw_callback called
\* for it, while the conversations of two enrolled identities await input.
C24_Witness ==
  /\ last.via = "handler"
  /\ last.kind = "callback"
  /\ last.data = "withdraw"
  /\ ~Enrolled(last.user)
  /\ Sent("not_authorized")
  /\ fsm[last.user] = Idle
  /\ \E u \in Users : fsm[u] = AwaitingWithdrawAddress
  /\ \E u \in Users : fsm[u] = AwaitingPaymentQuery

\* The event handled by this step is the /start command or one of the
\* callbacks balance and payments_last.
ReadOnlyEvent ==
  \/ last'.kind = "message" /\ IsCommandStart(CommandText(last'))
  \/ last'.kind = "callback" /\ last'.data \in {"balance", "payments_last"}

\* C25: /start, balance and payments_last leave the conversation state of
\* their identity as it was, the Awaiting states included, and a chat event
\* of one identity changes the conversation state of no other identity.
C25_ReadOnlyAndFrame ==
  [][ last'.kind \in {"message", "callback"} =>
        /\ \A v \in Users \ {last'.user} : fsm'[v] = fsm[v]
        /\ ReadOnlyEvent => fsm'[last'.user] = fsm[last'.user] ]_vars

\* /start was handled by start_handler for an identity that awaits the
\* withdrawal address, while another identity awaits a payment query.
C25_Witness ==
  /\ last.kind = "message"
  /\ IsCommandStart(CommandText(last))
  /\ last.handler = "start_handler"
  /\ last.pre = AwaitingWithdrawAddress
  /\ fsm[last.user] = AwaitingWithdrawAddress
  /\ \E v \in Users \ {last.user} : fsm[v] = AwaitingPaymentQuery

====
